---- MODULE Spec2Model ----
(***************************************************************************)
(* Model of OrchflowClient (examples/ai-integration.py): one client        *)
(* instance, the listener task started by every connect(), the callers of  *)
(* execute(), handler registration through on_event() and the handler      *)
(* tasks spawned by the listener.  The remote endpoint is the environment: *)
(* it may put any frame on an open connection and may drop the connection. *)
(* Scheduling is asyncio's: one step of the model is one run of a task     *)
(* between two suspension points.                                          *)
(***************************************************************************)
EXTENDS Integers, Sequences, FiniteSets, TLC

\* ---------------------------------------------------------------- bounds
\* inputs to the client: operations of the application and frames received
MaxSteps == 5

\* ---------------------------------------------------------------- values
EventTypes == {"X", "Y"}
Values == {"a", "b"}
Errors == {"e"}
None == "None"     \* an absent key (and JSON null for "result")
NoId == 0          \* a frame without the key "id"

\* A received message.  kind "malformed": not JSON, json.loads raises.
\* kind "scalar": JSON that decodes to a number, true, false or null, on
\* which the test '"id" in data' raises TypeError.  kind "object": a JSON
\* object with the keys id, result, error, event present or absent; event
\* holds the value of data["event"]["type"].
Frame(k, i, r, e, ev) == [kind |-> k, id |-> i, result |-> r, error |-> e, event |-> ev]

NoFrame == Frame("unset", NoId, None, None, None)

\* The (result, error) pairs a response may carry: a result alone, an error
\* alone, or both keys at once.
Payloads == {<<v, None>> : v \in Values} \cup {<<None, e>> : e \in Errors}
                \cup {<<"a", e>> : e \in Errors}

\* Frames with an id (r is the value of the id counter): for every id issued
\* so far, each payload, and one frame that has an event tag as well; and
\* one frame with an id that was never issued.
IdFrames(r) == {Frame("object", i, p[1], p[2], None) : i \in 1..r, p \in Payloads}
                  \cup {Frame("object", i, "a", None, "X") : i \in 1..r}
                  \cup {Frame("object", r + 1, "a", None, None)}

EventFrames == {Frame("object", NoId, None, None, ev) : ev \in EventTypes}

BareFrame == Frame("object", NoId, None, None, None)

BadFrames == {Frame("malformed", NoId, None, None, None),
              Frame("scalar", NoId, None, None, None)}

Frames(r) == IdFrames(r) \cup EventFrames \cup {BareFrame} \cup BadFrames

VARIABLES
    ws,                \* self.ws: 0 is None, else the index of a connection
    conn,              \* the connections made so far, by index: their state
    listener,          \* the _listen task of each connection
    request_id,        \* self.request_id
    pending_requests,  \* self.pending_requests: id -> the call owning the future
    event_handlers,    \* self.event_handlers: event type -> sequence of handlers
    calls,             \* the invocations of execute(), in the order they began
    tasks,             \* the handler tasks, in the order they were created
    sent,              \* the request frames written to connections, in order
    last,              \* the frame the listeners received last
    nframes,           \* number of frames received
    nops               \* number of operations performed on the client

vars == <<ws, conn, listener, request_id, pending_requests, event_handlers,
          calls, tasks, sent, last, nframes, nops>>

\* ------------------------------------------------------------- __init__
Init ==
    /\ ws = 0
    /\ conn = <<>>
    /\ listener = <<>>
    /\ request_id = 0
    /\ pending_requests = <<>>
    /\ event_handlers = <<>>
    /\ calls = <<>>
    /\ tasks = <<>>
    /\ sent = <<>>
    /\ last = NoFrame
    /\ nframes = 0
    /\ nops = 0

\* ------------------------------------------------------------- helpers
Min(S) == CHOOSE x \in S : \A y \in S : x <= y

Open(c) == c \in DOMAIN conn /\ conn[c] = "open"

\* Number of registrations made so far; the handlers are distinct functions,
\* named by the ordinal of their registration.
NRegs == LET Sum[S \in SUBSET EventTypes] ==
                 IF S = {} THEN 0
                 ELSE LET t == CHOOSE x \in S : TRUE
                      IN  Len(event_handlers[t]) + Sum[S \ {t}]
         IN  Sum[DOMAIN event_handlers]

\* --------------------------------------------------------------- connect
\* Connect that reopens the connection object it has when that one is closed
\* or has failed, and restarts its listener.
ConnectReopens ==
    /\ nops + nframes < MaxSteps
    /\ nops' = nops + 1
    /\ IF ws # 0 /\ conn[ws] # "open"
       THEN /\ conn' = [conn EXCEPT ![ws] = "open"]
            /\ listener' = [listener EXCEPT ![ws] = "running"]
            /\ ws' = ws
       ELSE /\ conn' = Append(conn, "open")
            /\ listener' = Append(listener, "running")
            /\ ws' = Len(conn) + 1
    /\ UNCHANGED <<request_id, pending_requests, event_handlers, calls,
                   tasks, sent, last, nframes>>

\* self.ws is bound to the new connection and a new _listen task is created,
\* whatever self.ws was before.  (When websockets.connect raises, nothing of
\* the client changes: that outcome is a stuttering step.)
Connect ==
    /\ nops + nframes < MaxSteps
    /\ nops' = nops + 1
    /\ conn' = Append(conn, "open")
    /\ listener' = Append(listener, "running")
    /\ ws' = Len(conn) + 1
    /\ UNCHANGED <<request_id, pending_requests, event_handlers, calls,
                   tasks, sent, last, nframes>>

\* main's finally block: ai.client.ws.close()
Close ==
    /\ nops + nframes < MaxSteps
    /\ ws # 0
    /\ Open(ws)
    /\ nops' = nops + 1
    /\ conn' = [conn EXCEPT ![ws] = "closed"]
    /\ UNCHANGED <<ws, listener, request_id, pending_requests, event_handlers,
                   calls, tasks, sent, last, nframes>>

\* The transport fails or the remote end goes away without a close handshake.
Drop(c) ==
    /\ Open(c)
    /\ conn' = [conn EXCEPT ![c] = "failed"]
    /\ UNCHANGED <<ws, listener, request_id, pending_requests, event_handlers,
                   calls, tasks, sent, last, nframes, nops>>

\* --------------------------------------------------------------- _listen
\* Route with 'else:' in the place of 'elif "event" in data:': a frame without
\* the key "event" reaches data["event"].
RouteElse(f) ==
    IF f.kind = "malformed" THEN "JSONDecodeError"
    ELSE IF f.kind = "scalar" THEN "TypeError"
    ELSE IF f.id # NoId THEN "response"
    ELSE IF f.event # None THEN "event"
    ELSE "KeyError"

\* Route that tests for the key "event" before the key "id".
RouteEventFirst(f) ==
    IF f.kind = "malformed" THEN "JSONDecodeError"
    ELSE IF f.kind = "scalar" THEN "TypeError"
    ELSE IF f.event # None THEN "event"
    ELSE IF f.id # NoId THEN "response"
    ELSE "drop"

\* What lines 36-49 do with a received message: the exception that leaves
\* the loop, or "response", "event" or "drop".
Route(f) ==
    IF f.kind = "malformed" THEN "JSONDecodeError"
    ELSE IF f.kind = "scalar" THEN "TypeError"
    ELSE IF f.id # NoId THEN "response"
    ELSE IF f.event # None THEN "event"
    ELSE "drop"

\* Target that answers the calls in the order they were issued: the oldest
\* call whose future is not done.
TargetOldest(pend, cs, f) ==
    LET waiting == {k \in DOMAIN cs : cs[k].future = NoFrame}
    IN  IF f.id \in DOMAIN pend /\ waiting # {} THEN Min(waiting) ELSE 0

\* The call whose future the table holds under the frame's id; 0 when the id
\* is not a key of the table.
Target(pend, cs, f) == IF f.id \in DOMAIN pend THEN pend[f.id] ELSE 0

\* Future.set_result: raises InvalidStateError on a future that is done, and
\* leaves its result as it was.
SetResultRaises(fut) == fut # NoFrame

\* SetResult that overwrites the result of a future that is done.
SetResultOverwrite(fut, f) == f

SetResult(fut, f) == IF fut = NoFrame THEN f ELSE fut

\* Spawn that walks the handler list from its end.
SpawnReversed(hs, ev) ==
    [i \in 1..Len(hs) |-> [h |-> hs[Len(hs) + 1 - i], ev |-> ev, st |-> "ready"]]

\* One task per handler of the list, created in list order.
Spawn(hs, ev) == [i \in 1..Len(hs) |-> [h |-> hs[i], ev |-> ev, st |-> "ready"]]

\* ListenEnd for a loop that catches the end of the connection and goes on
\* waiting for frames.
ListenEndSwallows(c) ==
    /\ listener[c] = "running"
    /\ conn[c] \in {"closed", "failed"}
    /\ UNCHANGED vars

\* The end of the 'async for': the iteration stops on a closed connection and
\* raises ConnectionClosedError on a failed one.
ListenEnd(c) ==
    /\ listener[c] = "running"
    /\ conn[c] \in {"closed", "failed"}
    /\ listener' = [listener EXCEPT ![c] =
                       IF conn[c] = "closed" THEN "returned" ELSE "ConnectionClosedError"]
    /\ UNCHANGED <<ws, conn, request_id, pending_requests, event_handlers,
                   calls, tasks, sent, last, nframes, nops>>

\* HandlersFor that falls back on every registered handler when the type has
\* no entry.
HandlersForAny(eh, t) ==
    IF t \in DOMAIN eh THEN eh[t]
    ELSE IF "X" \in DOMAIN eh THEN eh["X"]
    ELSE IF "Y" \in DOMAIN eh THEN eh["Y"]
    ELSE <<>>

\* Lines 47-48: the handlers the event is dispatched to; none when the type
\* is not a key of the table.
HandlersFor(eh, t) == IF t \in DOMAIN eh THEN eh[t] ELSE <<>>

\* ListenerAwaits for handlers awaited in the loop body ('await handler(...)').
ListenerAwaitsHandlers(ts) == {i \in DOMAIN ts : ts[i].st \in {"ready", "running"}}

\* The handler tasks the loop waits for before it takes the next frame: none,
\* since line 49 creates a task and does not await it.
ListenerAwaits(ts) == {}

\* One iteration of the loop on connection c, for the received frame f.
Listen(c, f) ==
    /\ listener[c] = "running"
    /\ Open(c)
    /\ ListenerAwaits(tasks) = {}
    /\ nops + nframes < MaxSteps
    /\ nframes' = nframes + 1
    /\ last' = f
    /\ LET r == Route(f)
           k == IF r = "response" THEN Target(pending_requests, calls, f) ELSE 0
           hs == IF r = "event" THEN HandlersFor(event_handlers, f.event) ELSE <<>>
       IN  /\ listener' = [listener EXCEPT ![c] =
                   IF r \notin {"response", "event", "drop"} THEN r
                   ELSE IF k # 0 /\ SetResultRaises(calls[k].future) THEN "InvalidStateError"
                   ELSE "running"]
           /\ calls' = IF k # 0 THEN [calls EXCEPT ![k].future = SetResult(@, f)]
                       ELSE calls
           /\ tasks' = tasks \o Spawn(hs, f.event)
    /\ UNCHANGED <<ws, conn, request_id, pending_requests, event_handlers,
                   sent, nops>>

\* --------------------------------------------------------------- execute
\* NextId that takes the first id and then forgets the increment.
NextIdStuck(r) == IF r = 0 THEN 1 ELSE r

\* Line 53: self.request_id += 1
NextId(r) == r + 1

\* Outcome that never looks for the key "error".
OutcomeIgnoresError(resp) == [pc |-> "returned", ret |-> resp.result, err |-> None]

\* Lines 71-74: what the caller gets from the response it awaited.
Outcome(resp) ==
    IF resp.error # None
    THEN [pc |-> "raised", ret |-> None, err |-> resp.error]
    ELSE [pc |-> "returned", ret |-> resp.result, err |-> None]

\* Register for an execute that registers the future only after the send.
RegisterLater(pend, rid, k) == pend

\* Line 63: self.pending_requests[self.request_id] = future
Register(pend, rid, k) == (rid :> k) @@ pend

\* The request frame of execute (lines 54-59).
ExecuteFrame(rid) == [method |-> "execute", id |-> rid, events |-> {}]

\* Lines 53-66 up to the first suspension, for a call made by the owner o
\* (0: the application; i: the handler task i): the id is taken, the future
\* is registered under it, and self.ws.send is called; with self.ws None the
\* attribute lookup raises at once.
Issue(o) ==
    /\ nops + nframes < MaxSteps
    /\ nops' = nops + 1
    /\ LET rid == NextId(request_id)
           k == Len(calls) + 1
       IN  /\ request_id' = rid
           /\ pending_requests' = Register(pending_requests, rid, k)
           /\ calls' = Append(calls,
                  [id |-> rid, conn |-> ws, owner |-> o, future |-> NoFrame,
                   ret |-> None,
                   pc |-> IF ws = 0 THEN "raised" ELSE "send",
                   err |-> IF ws = 0 THEN "AttributeError" ELSE None])
    /\ UNCHANGED <<ws, conn, listener, event_handlers, tasks, sent, last, nframes>>

\* execute() called by the application.
ExecuteIssue == Issue(0)

\* 'await self.ws.send(...)' completes, or raises ConnectionClosed when the
\* connection the call took is no longer open.
ExecuteSend(k) ==
    /\ calls[k].pc = "send"
    /\ calls' = IF Open(calls[k].conn)
                THEN [calls EXCEPT ![k].pc = "wait"]
                ELSE [calls EXCEPT ![k].pc = "raised", ![k].err = "ConnectionClosed"]
    /\ sent' = IF Open(calls[k].conn) THEN Append(sent, ExecuteFrame(calls[k].id))
               ELSE sent
    /\ UNCHANGED <<ws, conn, listener, request_id, pending_requests,
                   event_handlers, tasks, last, nframes, nops>>

\* 'await future' returns once the future is done.
ExecuteResume(k) ==
    /\ calls[k].pc = "wait"
    /\ calls[k].future # NoFrame
    /\ LET o == Outcome(calls[k].future)
       IN  calls' = [calls EXCEPT ![k].pc = o.pc, ![k].ret = o.ret, ![k].err = o.err]
    /\ UNCHANGED <<ws, conn, listener, request_id, pending_requests,
                   event_handlers, tasks, sent, last, nframes, nops>>

\* -------------------------------------------------------------- on_event
\* The decorator of on_event(t) applied to a new handler function.
OnEvent(t) ==
    /\ nops + nframes < MaxSteps
    /\ nops' = nops + 1
    /\ LET h == NRegs + 1
       IN  event_handlers' =
              IF t \notin DOMAIN event_handlers
              THEN (t :> <<h>>) @@ event_handlers
              ELSE [event_handlers EXCEPT ![t] = Append(@, h)]
    /\ UNCHANGED <<ws, conn, listener, request_id, pending_requests, calls,
                   tasks, sent, last, nframes>>

\* ------------------------------------------------------------- subscribe
\* SubscribeFrame for a subscribe that takes a correlation id like execute.
SubscribeFrameWithId(evs) == [method |-> "subscribe", id |-> 1, events |-> evs]

\* The request frame of subscribe (lines 87-91): it has no key "id".
SubscribeFrame(evs) == [method |-> "subscribe", id |-> NoId, events |-> evs]

\* subscribe(evs): the frame is written when the connection self.ws is open;
\* with self.ws None the attribute lookup raises, and on a connection that is
\* no longer open send raises ConnectionClosed: nothing is sent.
Subscribe(evs) ==
    /\ nops + nframes < MaxSteps
    /\ nops' = nops + 1
    /\ sent' = IF Open(ws) THEN Append(sent, SubscribeFrame(evs)) ELSE sent
    /\ UNCHANGED <<ws, conn, listener, request_id, pending_requests,
                   event_handlers, calls, tasks, last, nframes>>

\* --------------------------------------------------------- handler tasks
\* The calls of execute() that the handler task i made and that have neither
\* returned nor raised.
Awaited(i) == {k \in DOMAIN calls : calls[k].owner = i /\ calls[k].pc \in {"send", "wait"}}

\* The event loop runs ready tasks in the order they were created.
NextReady(ts) == Min({i \in DOMAIN ts : ts[i].st = "ready"})

\* TaskException for handlers awaited inside the loop: the exception leaves
\* the loop that called the handler.
TaskExceptionPropagates(ls) ==
    [c \in DOMAIN ls |-> IF ls[c] = "running" THEN "HandlerError" ELSE ls[c]]

\* An exception that leaves a handler stays in its task: the listener tasks
\* are as they were.
TaskException(ls) == ls

\* The first step of a handler task: the handler is invoked and runs up to
\* its first suspension point.
StartHandler ==
    /\ \E i \in DOMAIN tasks : tasks[i].st = "ready"
    /\ tasks' = [tasks EXCEPT ![NextReady(tasks)].st = "running"]
    /\ UNCHANGED <<ws, conn, listener, request_id, pending_requests,
                   event_handlers, calls, sent, last, nframes, nops>>

\* A running handler calls execute() and awaits it (lines 171, 187).
HandlerExecute(i) ==
    /\ tasks[i].st = "running"
    /\ Awaited(i) = {}
    /\ Issue(i)

HandlerReturn(i) ==
    /\ tasks[i].st = "running"
    /\ Awaited(i) = {}
    /\ tasks' = [tasks EXCEPT ![i].st = "done"]
    /\ UNCHANGED <<ws, conn, listener, request_id, pending_requests,
                   event_handlers, calls, sent, last, nframes, nops>>

HandlerRaise(i) ==
    /\ tasks[i].st = "running"
    /\ Awaited(i) = {}
    /\ tasks' = [tasks EXCEPT ![i].st = "failed"]
    /\ listener' = TaskException(listener)
    /\ UNCHANGED <<ws, conn, request_id, pending_requests, event_handlers,
                   calls, sent, last, nframes, nops>>

\* ------------------------------------------------------------------ spec
Next ==
    \/ Connect
    \/ Close
    \/ \E c \in DOMAIN conn : Drop(c)
    \/ \E c \in DOMAIN conn : ListenEnd(c)
    \/ \E c \in DOMAIN conn, f \in Frames(request_id) : Listen(c, f)
    \/ ExecuteIssue
    \/ \E k \in DOMAIN calls : ExecuteSend(k)
    \/ \E k \in DOMAIN calls : ExecuteResume(k)
    \/ \E t \in EventTypes : OnEvent(t)
    \/ \E t \in EventTypes : Subscribe({t})
    \/ StartHandler
    \/ \E i \in DOMAIN tasks : HandlerExecute(i)
    \/ \E i \in DOMAIN tasks : HandlerReturn(i)
    \/ \E i \in DOMAIN tasks : HandlerRaise(i)

Spec == Init /\ [][Next]_vars

\* ================================================================ claims
\* A step of a listener: it is the only step that counts a frame, and the
\* frame it handled is last'.
Received == nframes' # nframes

Resolved(k) == calls[k].future # NoFrame

\* C1: a call's future is only ever resolved by a frame carrying the id the
\* call was issued with, and a call that returns returns the result of that
\* frame.
RoutedById ==
    \A k \in DOMAIN calls :
        /\ Resolved(k) => calls[k].future.id = calls[k].id
        /\ calls[k].pc = "returned" =>
              /\ Resolved(k)
              /\ calls[k].ret = calls[k].future.result

\* C1 witness: the later of two calls has returned the result of its frame
\* while the earlier one still waits.
RoutedByIdWitness ==
    \E j, k \in DOMAIN calls :
        /\ j < k
        /\ calls[j].pc = "wait" /\ ~Resolved(j)
        /\ calls[k].pc = "returned" /\ calls[k].ret = "b"

\* C2 (as claimed): once a listener has terminated because its connection
\* was closed or has failed, no call sent on that connection is still
\* suspended on a future without a result.
PendingFailOnClose ==
    \A c \in DOMAIN conn :
        listener[c] \in {"returned", "ConnectionClosedError"} =>
            \A k \in DOMAIN calls :
                (calls[k].conn = c /\ calls[k].pc = "wait") => Resolved(k)

\* C3: the ids of the calls increase strictly in the order the calls were
\* issued, none exceeds the counter, and the table holds each unresolved
\* call under its own id (so no two unresolved calls share an id).
IdsIncreasing ==
    /\ \A j, k \in DOMAIN calls : j < k => calls[j].id < calls[k].id
    /\ \A k \in DOMAIN calls :
          /\ calls[k].id <= request_id
          /\ ~Resolved(k) => /\ calls[k].id \in DOMAIN pending_requests
                             /\ pending_requests[calls[k].id] = k

\* C3 witness: two unresolved calls are pending at once.
IdsIncreasingWitness ==
    \E j, k \in DOMAIN calls :
        /\ j # k
        /\ calls[j].pc = "wait" /\ ~Resolved(j)
        /\ calls[k].pc = "wait" /\ ~Resolved(k)

\* C4: a call that leaves its wait on a frame carrying an error raises that
\* error and no call ever returns from such a frame; a listener step for a
\* frame carrying an error leaves every call with another id as it was, and
\* so does the step in which the caller raises.
ErrorSurfaced ==
    [][/\ \A k \in DOMAIN calls :
             (calls[k].pc = "wait" /\ calls'[k].pc # "wait"
                  /\ calls[k].future.error # None) =>
                 /\ calls'[k].pc = "raised"
                 /\ calls'[k].err = calls[k].future.error
                 /\ \A j \in DOMAIN calls \ {k} : calls'[j] = calls[j]
       /\ \A k \in DOMAIN calls' :
             calls'[k].pc = "returned" => calls'[k].future.error = None
       /\ (Received /\ last'.error # None) =>
             \A j \in DOMAIN calls : calls[j].id # last'.id => calls'[j] = calls[j]
      ]_vars

\* C4 witness: one call has raised the remote error while another call is
\* still waiting, unresolved.
ErrorSurfacedWitness ==
    \E j, k \in DOMAIN calls :
        /\ calls[k].pc = "raised" /\ calls[k].err = "e"
        /\ calls[k].future.error = "e"
        /\ calls[j].pc = "wait" /\ ~Resolved(j)

\* C5: the result of a resolved future never changes, and a call that has
\* returned or raised keeps its outcome.
WriteOnce ==
    [][\A k \in DOMAIN calls :
          /\ Resolved(k) => calls'[k].future = calls[k].future
          /\ calls[k].pc \in {"returned", "raised"} =>
                /\ calls'[k].pc = calls[k].pc
                /\ calls'[k].ret = calls[k].ret
                /\ calls'[k].err = calls[k].err
      ]_vars

\* C5 witness: a second frame with the id of a resolved call, and with other
\* content, has been handled, and the call has the first frame's result.
WriteOnceWitness ==
    \E k \in DOMAIN calls :
        /\ Resolved(k)
        /\ last.id = calls[k].id
        /\ last # calls[k].future
        /\ calls[k].pc = "returned" /\ calls[k].ret = calls[k].future.result

\* C6 (as claimed): a listener step for a frame whose id matches no
\* unresolved pending call changes no call and leaves every listener running
\* as before.
UnmatchedDiscarded ==
    [][(/\ Received
        /\ last'.kind = "object" /\ last'.id # NoId
        /\ \/ last'.id \notin DOMAIN pending_requests
           \/ Resolved(pending_requests[last'.id])) =>
           /\ calls' = calls
           /\ listener' = listener
      ]_vars

\* C7 (as claimed): a listener step for a frame that does not decode leaves
\* every listener running as before.
MalformedNotFatal ==
    [][(Received /\ last'.kind = "malformed") => listener' = listener]_vars

DispatchOrder ==
    [][/\ (/\ Received
           /\ last'.kind = "object" /\ last'.id = NoId
           /\ last'.event \in DOMAIN event_handlers) =>
              LET hs == event_handlers[last'.event]
              IN  tasks' = tasks \o
                     [i \in 1..Len(hs) |-> [h |-> hs[i], ev |-> last'.event, st |-> "ready"]]
       /\ \A i \in DOMAIN tasks :
             /\ tasks'[i].h = tasks[i].h /\ tasks'[i].ev = tasks[i].ev
             /\ tasks[i].st # "ready" => tasks'[i].st # "ready"
             /\ (tasks[i].st = "ready" /\ tasks'[i].st # "ready") =>
                   \A j \in 1..(i - 1) : tasks[j].st # "ready"
      ]_vars

\* C9 witness: two handlers registered for one type have both been invoked
\* for one event, the first registered first.
DispatchOrderWitness ==
    \E t \in DOMAIN event_handlers :
        /\ event_handlers[t] = <<1, 2>>
        /\ Len(tasks) = 2
        /\ tasks[1].h = 1 /\ tasks[2].h = 2
        /\ tasks[1].ev = t /\ tasks[2].ev = t
        /\ tasks[1].st # "ready" /\ tasks[2].st # "ready"

\* C10: the step in which a handler fails changes no listener, no other
\* task and no call.
HandlerFailureIsolated ==
    [][\A i \in DOMAIN tasks :
          (tasks[i].st # "failed" /\ tasks'[i].st = "failed") =>
              /\ listener' = listener
              /\ calls' = calls
              /\ \A j \in DOMAIN tasks \ {i} : tasks'[j] = tasks[j]
      ]_vars

\* C10 witness: the first handler of an event has failed, the handler
\* registered after it has run, and the listener is running on an open
\* connection with a further frame to come.
HandlerFailureIsolatedWitness ==
    /\ Len(tasks) = 2
    /\ tasks[1].ev = tasks[2].ev
    /\ tasks[1].st = "failed"
    /\ tasks[2].st = "done"
    /\ nops + nframes < MaxSteps
    /\ \E c \in DOMAIN conn : Open(c) /\ listener[c] = "running"


\* C11: a handler that has not returned never keeps a listener from taking
\* the next frame; the response to a call made by a handler can be routed to
\* that call while the handler waits, and the call can then resume.
HandlerNeverBlocksLoop ==
    /\ \A c \in DOMAIN conn :
          (listener[c] = "running" /\ Open(c) /\ nops + nframes < MaxSteps) =>
              ENABLED Listen(c, BareFrame)
    /\ \A k \in DOMAIN calls :
          (calls[k].owner # 0 /\ calls[k].pc = "wait") =>
              LET c == calls[k].conn
                  f == Frame("object", calls[k].id, "a", None, None)
              IN  /\ (/\ ~Resolved(k)
                      /\ listener[c] = "running" /\ Open(c)
                      /\ nops + nframes < MaxSteps) =>
                         ENABLED (Listen(c, f) /\ calls'[k].future = f)
                  /\ Resolved(k) => ENABLED ExecuteResume(k)

\* C11 witness: a handler that has not returned made a call, the listener
\* routed the response that came after the event, and the call has returned.
HandlerNeverBlocksLoopWitness ==
    \E k \in DOMAIN calls :
        /\ calls[k].owner # 0
        /\ tasks[calls[k].owner].st = "running"
        /\ calls[k].pc = "returned"
        /\ last = calls[k].future

\* C12 (as claimed): a call issued while self.ws is not an open connection
\* never waits for a response, and when it fails it fails with the
\* connection error.
NotConnectedFails ==
    [][\A k \in DOMAIN calls' :
          /\ (k \notin DOMAIN calls /\ ~Open(ws)) =>
                /\ calls'[k].pc \in {"send", "raised"}
                /\ calls'[k].pc = "raised" => calls'[k].err = "ConnectionClosed"
          /\ (/\ k \in DOMAIN calls
              /\ calls[k].pc = "send" /\ ~Open(calls[k].conn)
              /\ calls'[k].pc # "send") =>
                /\ calls'[k].pc = "raised"
                /\ calls'[k].err = "ConnectionClosed"
      ]_vars

SubscribeFireAndForget ==
    [][/\ \A i \in DOMAIN sent : sent'[i] = sent[i]
       /\ (/\ Len(sent') > Len(sent)
           /\ sent'[Len(sent')].method = "subscribe") =>
              /\ Len(sent') = Len(sent) + 1
              /\ sent'[Len(sent')].id = NoId
              /\ request_id' = request_id
              /\ pending_requests' = pending_requests
              /\ event_handlers' = event_handlers
              /\ calls' = calls
              /\ nframes' = nframes
      ]_vars

\* C15 witness: a subscribe frame was sent after the request of a call that
\* is still pending, and the id counter is that call's id.
SubscribeFireAndForgetWitness ==
    /\ Len(sent) = 2
    /\ sent[1].method = "execute" /\ sent[2].method = "subscribe"
    /\ request_id = 1
    /\ calls[1].pc = "wait" /\ ~Resolved(1)
    /\ event_handlers = <<>>

\* C16: a listener step for an event creates exactly the tasks of the
\* handlers registered for its type, whatever was subscribed; for a type
\* without handlers it changes no task, no call, neither table and leaves the
\* listeners running.
UnhandledEventNoOp ==
    [][(Received /\ last'.kind = "object" /\ last'.id = NoId
           /\ last'.event # None) =>
           /\ Len(tasks') = Len(tasks) +
                 (IF last'.event \in DOMAIN event_handlers
                  THEN Len(event_handlers[last'.event]) ELSE 0)
           /\ last'.event \notin DOMAIN event_handlers =>
                 /\ tasks' = tasks
                 /\ calls' = calls
                 /\ pending_requests' = pending_requests
                 /\ event_handlers' = event_handlers
                 /\ listener' = listener
      ]_vars

\* C16 witness: an event of a subscribed type without handlers was handled
\* while another type has a handler: no task exists, and a listener is
\* running on an open connection with a further frame to come.
UnhandledEventNoOpWitness ==
    /\ last = Frame("object", NoId, None, None, "Y")
    /\ DOMAIN event_handlers = {"X"}
    /\ \E i \in DOMAIN sent : sent[i].method = "subscribe" /\ "Y" \in sent[i].events
    /\ tasks = <<>>
    /\ nops + nframes < MaxSteps
    /\ \E c \in DOMAIN conn : Open(c) /\ listener[c] = "running"

\* C17 (as claimed): the pending-call table holds no call whose caller has
\* been given the outcome of a frame: the result it returned or the remote
\* error it raised.
PendingOnlyUnresolved ==
    \A i \in DOMAIN pending_requests :
        LET k == pending_requests[i]
        IN  ~(/\ Resolved(k)
              /\ \/ calls[k].pc = "returned"
                 \/ calls[k].pc = "raised" /\ calls[k].err \in Errors)

\* C18: a listener step for a frame with an id creates no handler task, also
\* when the frame has an event tag; a step that creates handler tasks is a
\* listener step for a frame with an event tag and no id.
IdFirst ==
    [][/\ (Received /\ last'.kind = "object" /\ last'.id # NoId) => tasks' = tasks
       /\ Len(tasks') > Len(tasks) =>
             /\ Received
             /\ last'.kind = "object" /\ last'.id = NoId /\ last'.event # None
      ]_vars

\* C18 witness: a frame with the id of a pending call and the tag of an event
\* type that has a handler has resolved the call and created no task.
IdFirstWitness ==
    /\ last.id # NoId /\ last.event = "X"
    /\ "X" \in DOMAIN event_handlers
    /\ tasks = <<>>
    /\ \E k \in DOMAIN calls : calls[k].future = last

\* C19: every call is in the pending-call table under its id from the step
\* that issues it, so before its request is sent; and a listener step for a
\* frame with the id of an issued call finds the call: after it the call's
\* future has a result.
RegisteredBeforeSend ==
    [][/\ \A k \in DOMAIN calls' : calls'[k].id \in DOMAIN pending_requests'
       /\ (/\ Len(sent') > Len(sent)
           /\ sent'[Len(sent')].method = "execute") =>
              sent'[Len(sent')].id \in DOMAIN pending_requests
       /\ \A k \in DOMAIN calls :
             (Received /\ last'.kind = "object" /\ last'.id = calls[k].id) =>
                 calls'[k].future # NoFrame
      ]_vars

\* C19 witness: the response to a call was handled while the call was still
\* suspended in its send, and the call's future has it.
RegisteredBeforeSendWitness ==
    \E k \in DOMAIN calls :
        /\ calls[k].pc = "send"
        /\ Resolved(k)
        /\ calls[k].future.id = calls[k].id

\* C20 (as claimed): a call whose send step failed is not in the
\* pending-call table.
SendFailureUnregisters ==
    \A k \in DOMAIN calls :
        (calls[k].pc = "raised" /\ calls[k].err \in {"AttributeError", "ConnectionClosed"}) =>
            calls[k].id \notin DOMAIN pending_requests

====
